---- MODULE Spec2Model ----
(***************************************************************************)
(* Model of updated_inventory_system.py: the Inventory class (a dict from  *)
(* item name to quantity with add / remove / query / low-stock / report),  *)
(* and its persistence through json.dump / json.load on a file.            *)
(*                                                                         *)
(* Python values that reach the interface are modelled as records          *)
(* [type, s, n]: the Python type name, the characters of a str, the number *)
(* of an int / bool / float.  A dict is modelled as the sequence of its    *)
(* entries in insertion order, keys unique (Python 3.7+ dict semantics).   *)
(* A file is a sequence of bytes, each byte a one-character string; the    *)
(* byte 0xFF (never valid in UTF-8) is written BadByte.                    *)
(***************************************************************************)
EXTENDS Integers, Sequences, FiniteSets, TLC

VARIABLES stock_data, fs, last, pre, saved, undone

vars == <<stock_data, fs, last, pre, saved, undone>>

(***************************************************************************)
(* Bounds of the model.                                                    *)
(***************************************************************************)
\* quantities handed to add / remove are multiples of QtyUnit ...
QtyUnit == 5
\* ... up to MaxUnits of them, and add is not called past MaxUnits * QtyUnit
MaxUnits == 2

MaxQty == MaxUnits * QtyUnit

\* check_low_items(self, threshold=5)
DefaultThreshold == 5

(***************************************************************************)
(* Python values at the interface.                                         *)
(***************************************************************************)
PyStr(chars) == [type |-> "str", s |-> chars, n |-> 0]

PyInt(k) == [type |-> "int", s |-> <<>>, n |-> k]

PyFloat(k) == [type |-> "float", s |-> <<>>, n |-> k]

\* isinstance(v, str)
IsStr(v) == v.type = "str"

\* isinstance(v, int): bool is a subclass of int
IsInt(v) == v.type \in {"int", "bool"}

\* the item names the callers pass: "a", the one-character name '"' (which
\* json must escape), the empty string, and the integer 123 (main, line 180)
ItemInputs == {PyStr(<<"a">>), PyStr(<<"\"">>), PyStr(<<>>), PyInt(123)}

\* the quantities the callers pass: a negative int, 0, positive ints, a float
QtyInputs ==
    {PyInt(k * QtyUnit) : k \in (0 - 1)..MaxUnits} \cup {PyFloat(QtyUnit)}

\* the (item, qty) pairs the callers pass to add_item and remove_item: a valid
\* name with every quantity, an invalid name with a valid and an invalid one
CallInputs ==
    {c \in ItemInputs \X QtyInputs :
        (IsStr(c[1]) /\ c[1].s # <<>>) \/ c[2] \in {PyInt(QtyUnit), PyInt(0 - QtyUnit)}}

\* the thresholds the callers pass to check_low_items
ThresholdInputs == {0 - 1, 0, DefaultThreshold, QtyUnit + 1, MaxQty + 1}

(***************************************************************************)
(* dict: a sequence of [key, val] entries in insertion order.              *)
(***************************************************************************)
EmptyDict == <<>>

DictKeys(d) == {d[i].key : i \in 1..Len(d)}

\* k in d
DictHas(d, k) == \E i \in 1..Len(d) : d[i].key = k

DictIndex(d, k) == CHOOSE i \in 1..Len(d) : d[i].key = k

\* d.get(k, default)
DictGet(d, k, default) == IF DictHas(d, k) THEN d[DictIndex(d, k)].val ELSE default

\* d[k] = v : an existing key keeps its position, a new key goes last
DictSet(d, k, v) ==
    IF DictHas(d, k)
    THEN [d EXCEPT ![DictIndex(d, k)] = [key |-> k, val |-> v]]
    ELSE Append(d, [key |-> k, val |-> v])

\* del d[k]
DictDel(d, k) ==
    LET i == DictIndex(d, k)
    IN  SubSeq(d, 1, i - 1) \o SubSeq(d, i + 1, Len(d))

(***************************************************************************)
(* json.dump(obj, f, indent=4) for a dict of str -> int.                   *)
(***************************************************************************)
Digits == <<"0", "1", "2", "3", "4", "5", "6", "7", "8", "9">>

RECURSIVE NatRepr(_)
\* str(n) for n >= 0
NatRepr(n) ==
    IF n < 10 THEN <<Digits[n + 1]>>
    ELSE NatRepr(n \div 10) \o <<Digits[(n % 10) + 1]>>

\* int.__repr__, which json uses for int values
IntRepr(n) == IF n < 0 THEN <<"-">> \o NatRepr(0 - n) ELSE NatRepr(n)

\* a mutant of EscapeChar: the quote and the backslash are written raw
EscapeCharRaw(c) == <<c>>

\* json.encoder's escape table (ESCAPE_DCT) on the characters of the model
EscapeChar(c) ==
    IF c = "\"" THEN <<"\\", "\"">>
    ELSE IF c = "\\" THEN <<"\\", "\\">>
    ELSE IF c = "\n" THEN <<"\\", "n">>
    ELSE <<c>>

RECURSIVE EscapeChars(_)
EscapeChars(chars) ==
    IF chars = <<>> THEN <<>>
    ELSE EscapeChar(Head(chars)) \o EscapeChars(Tail(chars))

\* encode_basestring_ascii
EncodeStr(chars) == <<"\"">> \o EscapeChars(chars) \o <<"\"">>

\* newline_indent at depth 1 with indent=4
NewlineIndent == <<"\n", " ", " ", " ", " ">>

RECURSIVE DumpEntries(_)
\* the entries, each on its own indented line, separated by ","
DumpEntries(d) ==
    IF d = <<>> THEN <<>>
    ELSE NewlineIndent \o EncodeStr(d[1].key) \o <<":", " ">> \o IntRepr(d[1].val)
         \o (IF Len(d) > 1 THEN <<",">> ELSE <<>>) \o DumpEntries(Tail(d))

\* json.dump(self.stock_data, f, indent=4): the text written
JsonDumps(d) ==
    IF d = <<>> THEN <<"{", "}">>
    ELSE <<"{">> \o DumpEntries(d) \o <<"\n", "}">>

(***************************************************************************)
(* open(file, "r", encoding="utf-8") ... json.load(f): f.read() decodes    *)
(* the bytes, json.loads parses the text.  The parser follows              *)
(* json.decoder (JSONObject, scanstring, NUMBER_RE) for objects whose      *)
(* values are integers, which is what every file of the model that parses  *)
(* holds; any other text of the model is rejected where json rejects it.   *)
(***************************************************************************)
\* the byte 0xFF, which no UTF-8 sequence contains
BadByte == "0xFF"

\* f.read(): UnicodeDecodeError when a byte is not valid UTF-8
Utf8Decode(bytes) ==
    IF \E i \in 1..Len(bytes) : bytes[i] = BadByte
    THEN [exc |-> "UnicodeDecodeError", text |-> <<>>]
    ELSE [exc |-> "None", text |-> bytes]

\* json.decoder.WHITESPACE
IsWs(c) == c \in {" ", "\t", "\n", "\r"}

RECURSIVE SkipWs(_, _)
SkipWs(t, p) == IF p <= Len(t) /\ IsWs(t[p]) THEN SkipWs(t, p + 1) ELSE p

\* json.decoder.BACKSLASH on the characters of the model
IsEscape(c) == c \in {"\"", "\\", "/", "n", "t", "r"}

Unescape(c) ==
    IF c = "n" THEN "\n" ELSE IF c = "t" THEN "\t" ELSE IF c = "r" THEN "\r" ELSE c

ScanFail == [ok |-> FALSE, end |-> 0, chars |-> <<>>, n |-> 0, d |-> <<>>]

RECURSIVE ScanString(_, _, _)
\* py_scanstring with strict=True, p just after the opening quote
ScanString(t, p, acc) ==
    IF p > Len(t) THEN ScanFail
    ELSE IF t[p] = "\"" THEN [ScanFail EXCEPT !.ok = TRUE, !.end = p + 1, !.chars = acc]
    ELSE IF t[p] = "\\"
         THEN IF p + 1 <= Len(t) /\ IsEscape(t[p + 1])
              THEN ScanString(t, p + 2, Append(acc, Unescape(t[p + 1])))
              ELSE ScanFail
    ELSE IF t[p] \in {"\n", "\t", "\r"} THEN ScanFail
    ELSE ScanString(t, p + 1, Append(acc, t[p]))

IsDigit(c) == \E k \in 1..10 : Digits[k] = c

DigitVal(c) == (CHOOSE k \in 1..10 : Digits[k] = c) - 1

RECURSIVE ScanDigits(_, _, _)
ScanDigits(t, p, acc) ==
    IF p <= Len(t) /\ IsDigit(t[p])
    THEN ScanDigits(t, p + 1, acc * 10 + DigitVal(t[p]))
    ELSE [ScanFail EXCEPT !.ok = TRUE, !.end = p, !.n = acc]

\* NUMBER_RE, integer part: -?(0|[1-9][0-9]*)
ScanNumber(t, p) ==
    LET neg == p <= Len(t) /\ t[p] = "-"
        q   == IF neg THEN p + 1 ELSE p
        r   == IF t[q] = "0"
               THEN [ScanFail EXCEPT !.ok = TRUE, !.end = q + 1]
               ELSE ScanDigits(t, q, 0)
    IN  IF q > Len(t) \/ ~IsDigit(t[q]) THEN ScanFail
        ELSE IF neg THEN [r EXCEPT !.n = 0 - r.n] ELSE r

RECURSIVE ScanMembers(_, _, _)
\* JSONObject's loop, p at the opening quote of a key
ScanMembers(t, p, acc) ==
    LET key == ScanString(t, p + 1, <<>>)
        p1  == SkipWs(t, key.end)
        p2  == SkipWs(t, p1 + 1)
        val == ScanNumber(t, p2)
        p3  == SkipWs(t, val.end)
        p4  == SkipWs(t, p3 + 1)
        d   == DictSet(acc, key.chars, val.n)
    IN  IF ~key.ok THEN ScanFail
        ELSE IF p1 > Len(t) \/ t[p1] # ":" THEN ScanFail
        ELSE IF ~val.ok THEN ScanFail
        ELSE IF p3 > Len(t) THEN ScanFail
        ELSE IF t[p3] = "}" THEN [ScanFail EXCEPT !.ok = TRUE, !.end = p3 + 1, !.d = d]
        ELSE IF t[p3] = "," /\ p4 <= Len(t) /\ t[p4] = "\"" THEN ScanMembers(t, p4, d)
        ELSE ScanFail

\* JSONObject, p just after "{"
ScanObject(t, p) ==
    LET q == SkipWs(t, p)
    IN  IF q > Len(t) THEN ScanFail
        ELSE IF t[q] = "}" THEN [ScanFail EXCEPT !.ok = TRUE, !.end = q + 1]
        ELSE IF t[q] = "\"" THEN ScanMembers(t, q, EmptyDict)
        ELSE ScanFail

\* json.loads(text): JSONDecodeError unless the text is one object and nothing
\* but whitespace follows it
JsonLoads(t) ==
    LET p   == SkipWs(t, 1)
        obj == ScanObject(t, p + 1)
    IN  IF p > Len(t) \/ t[p] # "{" THEN [exc |-> "JSONDecodeError", d |-> EmptyDict]
        ELSE IF ~obj.ok \/ SkipWs(t, obj.end) # Len(t) + 1
             THEN [exc |-> "JSONDecodeError", d |-> EmptyDict]
        ELSE [exc |-> "None", d |-> obj.d]

\* json.load(f) on the bytes of a file
JsonLoad(bytes) ==
    LET dec == Utf8Decode(bytes)
    IN  IF dec.exc # "None" THEN [exc |-> dec.exc, d |-> EmptyDict]
        ELSE JsonLoads(dec.text)

(***************************************************************************)
(* The file system: path -> [exists, bytes].                               *)
(***************************************************************************)
\* the paths the callers pass to load_data
Paths == {"inventory.json", "missing.json", "corrupt.json", "binary.json"}

\* the path the callers pass to save_data (the default, "inventory.json")
SavePaths == {"inventory.json"}

NoFile == [exists |-> FALSE, bytes |-> <<>>]

File(bytes) == [exists |-> TRUE, bytes |-> bytes]

\* before the program runs: no inventory.json and no missing.json, a text
\* file that is not JSON, and a file that is not UTF-8 text
InitialFiles ==
    [p \in Paths |->
        IF p = "corrupt.json" THEN File(<<"n", "o", "t", " ", "j", "s", "o", "n">>)
        ELSE IF p = "binary.json" THEN File(<<BadByte, "{", "}">>)
        ELSE NoFile]

(***************************************************************************)
(* What a call leaves behind for its caller: the messages printed to       *)
(* sys.stderr, the exception that propagated (if any), the value returned, *)
(* the lines printed to stdout and the records appended to logs.           *)
(***************************************************************************)
MsgItem == "Error: Item name is not a valid string."

MsgQty == "Error: Quantity is not a valid non-negative integer."

MsgRemove == "Error removing item: Item not in stock. Cannot remove."

MsgNotFound == "Warning: File not found. Starting with empty inventory."

MsgDecode == "Error: Could not decode JSON. Starting with empty inventory."

MsgSave == "Error saving data"

NoCall ==
    [op |-> "__init__", item |-> PyStr(<<>>), qty |-> PyInt(0), logs |-> "None",
     path |-> "", threshold |-> 0, io |-> "ok",
     stderr |-> <<>>, raised |-> "None", logged |-> <<>>,
     ret_qty |-> 0, ret_low |-> <<>>, stdout |-> <<>>]

\* the result of a handler: the new stock_data and what the caller observes
Result(d, stderr, raised) ==
    [d |-> d, stderr |-> stderr, raised |-> raised, logged |-> <<>>]

(***************************************************************************)
(* Inventory.add_item                                                      *)
(***************************************************************************)
\* isinstance(item, str) and item (lines 32 and 60, negated there)
ItemOk(item) == IsStr(item) /\ item.s # <<>>

\* a mutant of QtyOk: the sign of qty is not checked
QtyOkUnsigned(qty) == IsInt(qty)

\* isinstance(qty, int) and qty >= 0 (lines 37 and 65, negated there)
QtyOk(qty) == IsInt(qty) /\ qty.n >= 0

\* a mutant of AddNewQty: the quantity is overwritten, not incremented
AddNewQtyOverwrite(d, k, q) == q

\* self.stock_data.get(item, 0) + qty
AddNewQty(d, k, q) == DictGet(d, k, 0) + q

add_item(d, item, qty, logs) ==
    IF ~ItemOk(item) THEN Result(d, <<MsgItem>>, "None")
    ELSE IF ~QtyOk(qty) THEN Result(d, <<MsgQty>>, "None")
    ELSE [Result(DictSet(d, item.s, AddNewQty(d, item.s, qty.n)), <<>>, "None")
            EXCEPT !.logged = IF logs = "list"
                              THEN <<[qty |-> qty.n, item |-> item.s]>>
                              ELSE <<>>]

(***************************************************************************)
(* Inventory.remove_item                                                   *)
(***************************************************************************)
\* a mutant of RemoveNewQty: the operands are swapped
RemoveNewQtySwapped(v, q) == q - v

\* self.stock_data[item] -= qty
RemoveNewQty(v, q) == v - q

\* a mutant of ShouldDelete: an entry that reaches 0 is kept
ShouldDeleteBelowZero(v) == v < 0

\* if self.stock_data[item] <= 0
ShouldDelete(v) == v <= 0

\* the body of the try block
RemoveTry(d, k, q) ==
    IF ~DictHas(d, k) THEN [exc |-> "KeyError", d |-> d]
    ELSE LET d1 == DictSet(d, k, RemoveNewQty(DictGet(d, k, 0), q))
         IN  IF ShouldDelete(DictGet(d1, k, 0))
             THEN [exc |-> "None", d |-> DictDel(d1, k)]
             ELSE [exc |-> "None", d |-> d1]

\* a mutant of RemoveCaught: KeyError is not caught
RemoveCaughtTypeErrorOnly == {"TypeError"}

\* except (KeyError, TypeError)
RemoveCaught == {"KeyError", "TypeError"}

remove_item(d, item, qty) ==
    IF ~ItemOk(item) THEN Result(d, <<MsgItem>>, "None")
    ELSE IF ~QtyOk(qty) THEN Result(d, <<MsgQty>>, "None")
    ELSE LET r == RemoveTry(d, item.s, qty.n)
         IN  IF r.exc = "None" THEN Result(r.d, <<>>, "None")
             ELSE IF r.exc \in RemoveCaught THEN Result(r.d, <<MsgRemove>>, "None")
             ELSE Result(r.d, <<>>, r.exc)

(***************************************************************************)
(* Inventory.get_qty, print_data, check_low_items                          *)
(***************************************************************************)
\* self.stock_data.get(item, 0); every key is a str, so an item of another
\* type equals none of them
get_qty(d, item) == IF IsStr(item) THEN DictGet(d, item.s, 0) ELSE 0

\* the lines print_data prints
print_data(d) ==
    <<[line |-> "--- Items Report ---", key |-> <<>>, val |-> 0]>>
    \o (IF d = EmptyDict
        THEN <<[line |-> "Inventory is empty.", key |-> <<>>, val |-> 0]>>
        ELSE [i \in 1..Len(d) |-> [line |-> "item -> qty", key |-> d[i].key, val |-> d[i].val]])
    \o <<[line |-> "--------------------", key |-> <<>>, val |-> 0]>>

\* a mutant of IsLow: the threshold itself counts as low
IsLowInclusive(qty, threshold) == qty <= threshold

\* if qty < threshold
IsLow(qty, threshold) == qty < threshold

check_low_items(d, threshold) ==
    LET Low(e) == IsLow(e.val, threshold)
        low    == SelectSeq(d, Low)
    IN  [i \in 1..Len(low) |-> low[i].key]

(***************************************************************************)
(* Inventory.load_data                                                     *)
(***************************************************************************)
\* the body of the try block: open(file, "r", encoding="utf-8"), json.load
LoadTry(files, file) ==
    IF ~files[file].exists THEN [exc |-> "FileNotFoundError", d |-> EmptyDict]
    ELSE JsonLoad(files[file].bytes)

load_data(d, files, file) ==
    LET r == LoadTry(files, file)
    IN  IF r.exc = "None" THEN Result(r.d, <<>>, "None")
        ELSE IF r.exc = "FileNotFoundError" THEN Result(EmptyDict, <<MsgNotFound>>, "None")
        ELSE IF r.exc = "JSONDecodeError" THEN Result(EmptyDict, <<MsgDecode>>, "None")
        ELSE Result(d, <<>>, r.exc)

(***************************************************************************)
(* Inventory.save_data                                                     *)
(***************************************************************************)
\* how far a write that fails got: nothing (the buffered text is flushed in
\* one write when the file is closed), or all but the last byte
PartialLens(n) == {0, n - 1}

\* what the file system does with open(file, "w") and the writes: "ok", or
\* open fails (the file is untouched), or a write fails after k bytes
SaveOutcomes(d) ==
    {[io |-> "ok", k |-> Len(JsonDumps(d))], [io |-> "open failed", k |-> 0]}
    \cup {[io |-> "write failed", k |-> k] : k \in PartialLens(Len(JsonDumps(d)))}

\* the body of the try block: the file afterwards and the exception raised
SaveTry(d, files, file, out) ==
    IF out.io = "open failed" THEN [exc |-> "OSError", files |-> files]
    ELSE [exc   |-> IF out.io = "ok" THEN "None" ELSE "OSError",
          files |-> [files EXCEPT ![file] = File(SubSeq(JsonDumps(d), 1, out.k))]]

\* a mutant of SaveCaught: nothing is caught
SaveCaughtNothing == {}

\* except IOError (an alias of OSError)
SaveCaught == {"OSError"}

save_data(d, files, file, out) ==
    LET r == SaveTry(d, files, file, out)
    IN  [files  |-> r.files,
         res    |-> IF r.exc = "None" THEN Result(d, <<>>, "None")
                    ELSE IF r.exc \in SaveCaught THEN Result(d, <<MsgSave>>, "None")
                    ELSE Result(d, <<>>, r.exc)]

(***************************************************************************)
(* The state machine.  stock_data is the Inventory's dict and fs the file  *)
(* system.  last records the most recent call with what its caller         *)
(* observed, pre is stock_data as that call found it, and saved[p] is the  *)
(* dict that the last complete save_data wrote to p.  undone.on says that   *)
(* the last call was remove_item right after add_item with the same        *)
(* arguments, and undone.base is stock_data as that add_item found it.     *)
(* last, pre, saved and undone are history variables.                      *)
(***************************************************************************)
NotSaved == [set |-> FALSE, d |-> EmptyDict]

NotUndone == [on |-> FALSE, base |-> EmptyDict]

Init ==
    /\ stock_data = EmptyDict
    /\ fs = InitialFiles
    /\ last = NoCall
    /\ pre = EmptyDict
    /\ saved = [p \in Paths |-> NotSaved]
    /\ undone = NotUndone

\* what every call records of its result
Observed(call, r) ==
    [call EXCEPT !.stderr = r.stderr, !.raised = r.raised, !.logged = r.logged]

\* Inventory(): a new, empty inventory replaces the one in use
NewInventory ==
    /\ stock_data' = EmptyDict
    /\ last' = NoCall
    /\ pre' = stock_data
    /\ undone' = NotUndone
    /\ UNCHANGED <<fs, saved>>

AddItem ==
    \E c \in CallInputs, logs \in {"None", "list"} :
        LET item == c[1]
            qty  == c[2]
            r    == add_item(stock_data, item, qty, logs)
        IN  \* the default logs=None is tried with the calls that reach its use
            /\ logs = "None" => r.stderr = <<>>
            /\ get_qty(r.d, item) <= MaxQty
            /\ stock_data' = r.d
            /\ last' = Observed([NoCall EXCEPT !.op = "add_item", !.item = item,
                                               !.qty = qty, !.logs = logs], r)
            /\ pre' = stock_data
            /\ undone' = NotUndone
            /\ UNCHANGED <<fs, saved>>

RemoveItem ==
    \E c \in CallInputs :
        LET item == c[1]
            qty  == c[2]
            r    == remove_item(stock_data, item, qty)
        IN  /\ stock_data' = r.d
            /\ last' = Observed([NoCall EXCEPT !.op = "remove_item", !.item = item,
                                               !.qty = qty], r)
            /\ pre' = stock_data
            /\ undone' = IF last.op = "add_item" /\ last.item = item /\ last.qty = qty
                          THEN [on |-> TRUE, base |-> pre]
                          ELSE NotUndone
            /\ UNCHANGED <<fs, saved>>

GetQty ==
    \E item \in ItemInputs :
        /\ last' = [NoCall EXCEPT !.op = "get_qty", !.item = item,
                                  !.ret_qty = get_qty(stock_data, item)]
        /\ pre' = stock_data
        /\ undone' = NotUndone
        /\ UNCHANGED <<stock_data, fs, saved>>

PrintData ==
    /\ last' = [NoCall EXCEPT !.op = "print_data", !.stdout = print_data(stock_data)]
    /\ pre' = stock_data
    /\ undone' = NotUndone
    /\ UNCHANGED <<stock_data, fs, saved>>

CheckLowItems ==
    \E threshold \in ThresholdInputs :
        /\ last' = [NoCall EXCEPT !.op = "check_low_items", !.threshold = threshold,
                                  !.ret_low = check_low_items(stock_data, threshold)]
        /\ pre' = stock_data
        /\ undone' = NotUndone
        /\ UNCHANGED <<stock_data, fs, saved>>

LoadData ==
    \E file \in Paths :
        LET r == load_data(stock_data, fs, file)
        IN  /\ stock_data' = r.d
            /\ last' = Observed([NoCall EXCEPT !.op = "load_data", !.path = file], r)
            /\ pre' = stock_data
            /\ undone' = NotUndone
            /\ UNCHANGED <<fs, saved>>

SaveData ==
    \E file \in SavePaths :
        \E out \in SaveOutcomes(stock_data) :
            LET r == save_data(stock_data, fs, file, out)
            IN  /\ stock_data' = r.res.d
                /\ fs' = r.files
                /\ last' = Observed([NoCall EXCEPT !.op = "save_data", !.path = file,
                                                   !.io = out.io], r.res)
                /\ pre' = stock_data
                /\ undone' = NotUndone
                /\ saved' = IF out.io = "ok"
                            THEN [saved EXCEPT ![file] = [set |-> TRUE, d |-> stock_data]]
                            ELSE IF out.io = "open failed" THEN saved
                            ELSE [saved EXCEPT ![file] = NotSaved]

Next ==
    \/ NewInventory
    \/ AddItem
    \/ RemoveItem
    \/ GetQty
    \/ PrintData
    \/ CheckLowItems
    \/ LoadData
    \/ SaveData

Spec == Init /\ [][Next]_vars

(***************************************************************************)
(* The properties.  What the specification calls a valid item (non-empty   *)
(* text) and a valid quantity (an integer >= 0) is stated here on the      *)
(* Python values, apart from the checks the code makes.                    *)
(***************************************************************************)
ValidItem(item) == item.type = "str" /\ Len(item.s) > 0

ValidQty(qty) == qty.type \in {"int", "bool"} /\ qty.n >= 0

\* every item name in play, as a str
Names == {PyStr(k) : k \in DictKeys(pre) \cup DictKeys(stock_data)}
         \cup {i \in ItemInputs : ValidItem(i)}

\* the keys of the entry lines of a report
Reported(d) ==
    {print_data(d)[i].key : i \in {j \in 1..Len(print_data(d)) :
                                     print_data(d)[j].line = "item -> qty"}}

\* C1: every key present in stock_data has a strictly positive quantity (no
\* entry with quantity 0 or below is retained)
C1_QuantitiesPositive ==
    \A i \in 1..Len(stock_data) : stock_data[i].val > 0

\* C2: after add(item, qty) with a non-empty text item and an integer
\* qty >= 0, quantity_of(item) is its prior value (0 if absent) plus qty, and
\* the quantity of every other item is unchanged
C2_AddIncrements ==
    (last.op = "add_item" /\ ValidItem(last.item) /\ ValidQty(last.qty)) =>
        /\ get_qty(stock_data, last.item) = get_qty(pre, last.item) + last.qty.n
        /\ \A other \in Names \ {last.item} :
               get_qty(stock_data, other) = get_qty(pre, other)

\* add of a positive quantity to an item already in stock, next to another item
C2_Witness ==
    /\ last.op = "add_item" /\ ValidItem(last.item) /\ ValidQty(last.qty)
    /\ last.qty.n > 0
    /\ DictHas(pre, last.item.s)
    /\ Len(pre) = 2

\* C3: add or remove with an invalid item (empty or non-text) or an invalid
\* quantity (negative or non-integer) reports an error and leaves
\* stock_data identical to what it was
C3_InvalidRejected ==
    (last.op \in {"add_item", "remove_item"}
     /\ (~ValidItem(last.item) \/ ~ValidQty(last.qty))) =>
        /\ last.stderr \in {<<MsgItem>>, <<MsgQty>>}
        /\ last.raised = "None"
        /\ stock_data = pre

\* add of a negative quantity to an item in stock (add("banana", -2))
C3_Witness ==
    /\ last.op = "add_item" /\ ValidItem(last.item)
    /\ last.qty.type = "int" /\ last.qty.n < 0
    /\ get_qty(pre, last.item) > 0
    /\ get_qty(stock_data, last.item) = get_qty(pre, last.item)

\* C4: remove(item, qty) with valid arguments and item absent from
\* stock_data leaves stock_data unchanged and reports "not in stock", and no
\* exception reaches the caller
C4_RemoveAbsent ==
    (last.op = "remove_item" /\ ValidItem(last.item) /\ ValidQty(last.qty)
     /\ ~DictHas(pre, last.item.s)) =>
        /\ stock_data = pre
        /\ last.stderr = <<MsgRemove>>
        /\ last.raised = "None"

\* remove of an item that is not in a non-empty stock
C4_Witness ==
    /\ last.op = "remove_item" /\ ValidItem(last.item) /\ ValidQty(last.qty)
    /\ ~DictHas(pre, last.item.s)
    /\ pre # EmptyDict
    /\ last.stderr = <<MsgRemove>>

\* C5: remove(item, qty) with valid arguments and item present with
\* quantity v: if v - qty <= 0 the entry is deleted (quantity_of(item) is 0
\* and the item is not in the report), otherwise it is kept with v - qty;
\* every other entry is unchanged
C5_RemoveDecrements ==
    (last.op = "remove_item" /\ ValidItem(last.item) /\ ValidQty(last.qty)
     /\ DictHas(pre, last.item.s)) =>
        LET k == last.item.s
            v == DictGet(pre, k, 0)
            q == last.qty.n
        IN  /\ v - q <= 0 =>
                /\ get_qty(stock_data, last.item) = 0
                /\ k \notin DictKeys(stock_data)
                /\ k \notin Reported(stock_data)
            /\ v - q > 0 =>
                /\ k \in DictKeys(stock_data)
                /\ k \in Reported(stock_data)
                /\ get_qty(stock_data, last.item) = v - q
            /\ \A i \in 1..Len(pre) :
                   pre[i].key # k => \E j \in 1..Len(stock_data) : stock_data[j] = pre[i]
            /\ DictKeys(stock_data) \subseteq DictKeys(pre)

\* remove of exactly the quantity in stock, next to another item
C5_Witness ==
    /\ last.op = "remove_item" /\ ValidItem(last.item) /\ ValidQty(last.qty)
    /\ DictHas(pre, last.item.s)
    /\ last.qty.n > 0
    /\ DictGet(pre, last.item.s, 0) = last.qty.n
    /\ Len(pre) = 2
    /\ Len(stock_data) = 1

\* C6: load(path) of a file that save(path) wrote completely, and that
\* nothing has written since, yields the same entries (keys, quantities and
\* order) as the dict that was saved, whatever the store held before loading
C6_SaveLoadRoundTrip ==
    (last.op = "load_data" /\ saved[last.path].set) =>
        /\ stock_data = saved[last.path].d
        /\ last.stderr = <<>>
        /\ last.raised = "None"

\* a saved dict of two entries, one key needing an escape and one quantity of
\* two digits, loaded into an empty store
C6_Witness ==
    /\ last.op = "load_data" /\ saved[last.path].set
    /\ pre = EmptyDict
    /\ Len(stock_data) = 2
    /\ DictHas(stock_data, <<"\"">>)
    /\ \E i \in 1..Len(stock_data) : stock_data[i].val >= 10

\* C7: low_stock(T) returns exactly the items whose quantity is strictly less
\* than T, each once, and leaves stock_data unchanged; T = 0 returns nothing
\* and a T above every quantity returns every item
C7_LowStockExact ==
    last.op = "check_low_items" =>
        LET T   == last.threshold
            ret == last.ret_low
        IN  /\ {ret[i] : i \in 1..Len(ret)}
                 = {k \in DictKeys(pre) : DictGet(pre, k, 0) < T}
            /\ \A i, j \in 1..Len(ret) : ret[i] = ret[j] => i = j
            /\ stock_data = pre
            /\ T = 0 => ret = <<>>
            /\ (\A i \in 1..Len(pre) : pre[i].val < T) =>
                   ret = [i \in 1..Len(pre) |-> pre[i].key]

\* a threshold between the quantities of two items in stock
C7_Witness ==
    /\ last.op = "check_low_items"
    /\ Len(stock_data) = 2
    /\ Len(last.ret_low) = 1
    /\ \E i \in 1..2 : stock_data[i].val > last.threshold

\* C8: load(path) of a file that does not exist, or whose content is not
\* valid JSON, leaves stock_data empty with a warning or error reported
C8_LoadFailureResets ==
    (last.op = "load_data"
     /\ (~fs[last.path].exists \/ JsonLoad(fs[last.path].bytes).exc # "None")) =>
        /\ stock_data = EmptyDict
        /\ last.stderr \in {<<MsgNotFound>>, <<MsgDecode>>}
        /\ last.raised = "None"

\* C9: save(path) leaves stock_data as it was whether the write succeeds or
\* fails; a failure is reported on stderr and does not reach the caller
C9_SaveKeepsState ==
    last.op = "save_data" =>
        /\ stock_data = pre
        /\ last.raised = "None"
        /\ last.io # "ok" => last.stderr = <<MsgSave>>
        /\ last.io = "ok" => last.stderr = <<>>

\* a write that fails part-way while two items are in stock
C9_Witness ==
    /\ last.op = "save_data"
    /\ last.io = "write failed"
    /\ Len(stock_data) = 2
    /\ fs[last.path].bytes # <<>>

\* C10: add(item, qty) immediately followed by remove(item, qty), with a
\* non-empty text item and an integer qty >= 0, leaves quantity_of(i) at its
\* value before the two calls for every item i
C10_RemoveUndoesAdd ==
    (undone.on /\ ValidItem(last.item) /\ ValidQty(last.qty)) =>
        \A i \in Names \cup {PyStr(k) : k \in DictKeys(undone.base)} :
            get_qty(stock_data, i) = get_qty(undone.base, i)

\* the pair applied to an item in stock with a positive quantity, next to
\* another item
C10_Witness ==
    /\ undone.on /\ ValidItem(last.item) /\ ValidQty(last.qty)
    /\ last.qty.n > 0
    /\ DictHas(undone.base, last.item.s)
    /\ Len(undone.base) = 2
    /\ pre # undone.base

====
